---- MODULE Spec2Model ----
(***************************************************************************)
(* Model of app.py: the ORDER BY / SORT rule scanner for ABAP SELECTs.     *)
(*                                                                         *)
(* A source text is held as its token sequence: every maximal run of word  *)
(* characters (\w) is one token, every other character is a token of its   *)
(* own.  A token is a sequence of one-character strings, so case folding,  *)
(* prefixes and suffixes are computed on the characters.  All the regular  *)
(* expressions of app.py touch the text only through \b, \w+, \s+, '.',    *)
(* literal keywords and literal punctuation, which this representation     *)
(* decides exactly; character offsets are recovered with CharOff.          *)
(***************************************************************************)
EXTENDS Integers, Sequences, FiniteSets, TLC

VARIABLES
  units,     \* assess: the source texts of the batch (u.code or "")
  ui,        \* assess: the unit being processed
  out,       \* assess: the findings returned for the units finished
  code,      \* scan_sql: its argument
  pc,        \* "scan" in scan_sql's loop, "assess" in assess's loop, "done"
  pos,       \* scan_sql: the token finditer resumes at
  located,   \* scan_sql: the matches finditer has yielded so far
  cur,       \* scan_sql: the locals of the last loop iteration
  results,   \* scan_sql: results
  hi,        \* assess: the hit the loop is at
  seen,      \* assess: seen
  findings   \* assess: findings

vars == <<units, ui, out, code, pc, pos, located, cur, results, hi, seen, findings>>

(*************************** characters and tokens *************************)

LowerAlpha == <<"a","b","c","d","e","f","g","h","i","j","k","l","m",
                "n","o","p","q","r","s","t","u","v","w","x","y","z">>
UpperAlpha == <<"A","B","C","D","E","F","G","H","I","J","K","L","M",
                "N","O","P","Q","R","S","T","U","V","W","X","Y","Z">>

Range(s) == {s[i] : i \in DOMAIN s}

\* \w (the letters and the underscore; the source texts of the model hold no digits)
WordChars == Range(LowerAlpha) \cup Range(UpperAlpha) \cup {"_"}

\* the other characters of the source texts of the model
OtherChars == {" ", "\n", ".", "*", "@", "(", ")", "~", ","}

\* str.upper() on one character
UpChar ==
  [c \in WordChars \cup OtherChars |->
     IF c \in Range(LowerAlpha)
     THEN UpperAlpha[CHOOSE i \in DOMAIN LowerAlpha : LowerAlpha[i] = c]
     ELSE c]

\* str.upper() / re.IGNORECASE folding of one token
Upper(tok) == [i \in DOMAIN tok |-> UpChar[tok[i]]]

sp   == <<" ">>
nl   == <<"\n">>
dot  == <<".">>
star == <<"*">>
at   == <<"@">>
lpar == <<"(">>
rpar == <<")">>

\* \s
IsWs(tok) == tok = sp \/ tok = nl
\* \w+ (a whole token: tokens are maximal runs)
IsWord(tok) == tok[1] \in WordChars

kSELECT   == <<"S","E","L","E","C","T">>
kSINGLE   == <<"S","I","N","G","L","E">>
kFROM     == <<"F","R","O","M">>
kINTO     == <<"I","N","T","O">>
kTABLE    == <<"T","A","B","L","E">>
kDATA     == <<"D","A","T","A">>
kFOR      == <<"F","O","R">>
kALL      == <<"A","L","L">>
kENTRIES  == <<"E","N","T","R","I","E","S">>
kORDER    == <<"O","R","D","E","R">>
kBY       == <<"B","Y">>
kSORT     == <<"S","O","R","T">>
kDISTINCT == <<"D","I","S","T","I","N","C","T">>

\* a keyword matched as a whole word, case-insensitively
IsKw(tok, kw) == Upper(tok) = kw

HasPrefix(w, p) == Len(w) >= Len(p) /\ SubSeq(w, 1, Len(p)) = p
HasSuffix(w, p) == Len(w) >= Len(p) /\ SubSeq(w, Len(w) - Len(p) + 1, Len(w)) = p

\* index of the first token at or after i that is not whitespace (Len+1 if none)
RECURSIVE SkipWs(_, _)
SkipWs(txt, i) ==
  IF i <= Len(txt) /\ IsWs(txt[i]) THEN SkipWs(txt, i + 1) ELSE i

Min(S) == CHOOSE x \in S : \A y \in S : x <= y

\* number of characters in the first n tokens
RECURSIVE CharOff(_, _)
CharOff(txt, n) == IF n = 0 THEN 0 ELSE CharOff(txt, n - 1) + Len(txt[n])

\* the text as its characters
RECURSIVE Flatten(_)
Flatten(txt) == IF txt = <<>> THEN <<>> ELSE Head(txt) \o Flatten(Tail(txt))

NoMatch == [found |-> FALSE]
None == <<>>

(****************************** Statement Locator **************************)

\* \bFROM\b\s+(?P<table>\w+) with FROM at token k: the index of the table token, or 0
FromAt(txt, k) ==
  IF IsKw(txt[k], kFROM) /\ k + 1 <= Len(txt) /\ IsWs(txt[k + 1])
  THEN LET m == SkipWs(txt, k + 1)
       IN IF m <= Len(txt) /\ IsWord(txt[m]) THEN m ELSE 0
  ELSE 0

\* the rest ended by a period or by the end of the text: (?P<rest>.*?(\.|$))
RestEnd_OrEnd(txt, m) ==
  LET D == {e \in (m + 1)..Len(txt) : txt[e] = dot}
  IN IF D = {} THEN Len(txt) ELSE Min(D)

\* (?P<rest>.*?\.) : the first period after the table token, or 0
RestEnd(txt, m) ==
  LET D == {e \in (m + 1)..Len(txt) : txt[e] = dot}
  IN IF D = {} THEN 0 ELSE Min(D)

\* SQL_SELECT_BLOCK_RE anchored at token i
SelectAt(txt, i) ==
  IF ~IsKw(txt[i], kSELECT) THEN NoMatch
  ELSE
    LET j == SkipWs(txt, i + 1)
        \* (?P<single>\s+SINGLE)? : no \b after SINGLE, a prefix of a word matches
        single == j > i + 1 /\ j <= Len(txt) /\ IsWord(txt[j])
                  /\ HasPrefix(Upper(txt[j]), kSINGLE)
        from0 == IF single THEN j ELSE i
        \* (?P<select>.+?) lazy: the first FROM from which the rest matches
        K == {k \in (from0 + 1)..Len(txt) :
                FromAt(txt, k) # 0 /\ RestEnd(txt, FromAt(txt, k)) # 0}
    IN IF K = {} THEN NoMatch
       ELSE LET k == Min(K)
                m == FromAt(txt, k)
                remd == SubSeq(txt[j], Len(kSINGLE) + 1, Len(txt[j]))
            IN [found  |-> TRUE,
                first  |-> i,
                last   |-> RestEnd(txt, m),
                single |-> single,
                select |-> IF single
                           THEN (IF remd = <<>> THEN <<>> ELSE <<remd>>)
                                \o SubSeq(txt, j + 1, k - 1)
                           ELSE SubSeq(txt, i + 1, k - 1),
                table  |-> txt[m]]

\* SQL_SELECT_BLOCK_RE.finditer: the next match starting at token p or later
NextMatch(txt, p) ==
  LET I == {i \in p..Len(txt) : SelectAt(txt, i).found}
  IN IF I = {} THEN NoMatch ELSE SelectAt(txt, Min(I))

(********************* Variant Classifier and Extractor ********************)

\* FOR_ALL_ENTRIES_RE.search(txt)
HasForAllEntries(txt) ==
  \E p \in 1..Len(txt) :
    /\ IsKw(txt[p], kFOR)
    /\ LET a == SkipWs(txt, p + 1)
       IN /\ a > p + 1 /\ a <= Len(txt) /\ IsKw(txt[a], kALL)
          /\ LET b == SkipWs(txt, a + 1)
             IN b > a + 1 /\ b <= Len(txt) /\ IsKw(txt[b], kENTRIES)

\* re.sub(r'^\s*SINGLE\s+', '', sel)
SubSingle(sel) ==
  LET j == SkipWs(sel, 1)
  IN IF j < Len(sel) /\ IsKw(sel[j], kSINGLE) /\ IsWs(sel[j + 1])
     THEN SubSeq(sel, SkipWs(sel, j + 1), Len(sel))
     ELSE sel

\* re.sub(r"\bINTO\b.+", "", sel): cut from the first INTO that has text after it
SubInto(sel) ==
  LET Q == {q \in 1..(Len(sel) - 1) : IsKw(sel[q], kINTO)}
  IN IF Q = {} THEN sel ELSE SubSeq(sel, 1, Min(Q) - 1)

\* re.sub(r"\s+", " ", sel).strip()
RECURSIVE CollapseWs(_)
CollapseWs(sel) ==
  IF sel = <<>> THEN <<>>
  ELSE IF IsWs(sel[1])
       THEN <<sp>> \o CollapseWs(SubSeq(sel, SkipWs(sel, 1), Len(sel)))
       ELSE <<sel[1]>> \o CollapseWs(Tail(sel))

\* str.strip()
Strip(sel) ==
  LET K == {i \in 1..Len(sel) : ~IsWs(sel[i])}
  IN IF K = {} THEN <<>>
     ELSE SubSeq(sel, Min(K), CHOOSE x \in K : \A y \in K : y <= x)

\* select_fields_raw after the three substitutions and strip()
CleanSelect(sel, is_single) ==
  Strip(CollapseWs(SubInto(IF is_single THEN SubSingle(sel) ELSE sel)))

\* the selection clause compared with "*" instead of searched for it
HasStar_Exact(clean) == clean = <<star>>

\* "*" in select_fields_raw
HasStar(clean) == \E i \in 1..Len(clean) : clean[i] = star

\* list(dict.fromkeys(toks)): duplicates removed, first occurrence kept
RECURSIVE Dedupe(_)
Dedupe(toks) ==
  IF toks = <<>> THEN <<>>
  ELSE LET r == Dedupe(SubSeq(toks, 1, Len(toks) - 1))
           x == toks[Len(toks)]
       IN IF x \in Range(r) THEN r ELSE Append(r, x)

\* the loop with DISTINCT compared before the token is uppercased
RECURSIVE FieldTokens_RawDistinct(_)
FieldTokens_RawDistinct(clean) ==
  IF clean = <<>> THEN <<>>
  ELSE (IF IsWord(clean[1]) /\ clean[1] # kDISTINCT THEN <<Upper(clean[1])>> ELSE <<>>)
       \o FieldTokens_RawDistinct(Tail(clean))

\* the loop over FIELDS_RE.findall(select_fields_raw)
RECURSIVE FieldTokens(_)
FieldTokens(clean) ==
  IF clean = <<>> THEN <<>>
  ELSE LET tok_up == Upper(clean[1])
       IN (IF IsWord(clean[1]) /\ tok_up # kDISTINCT THEN <<tok_up>> ELSE <<>>)
          \o FieldTokens(Tail(clean))

Fields(clean) == Dedupe(FieldTokens(clean))

\* INTO_TABLE_RE anchored at token p: the captured name, or None
IntoTableAt(txt, p) ==
  IF ~IsKw(txt[p], kINTO) THEN None
  ELSE LET a == SkipWs(txt, p + 1)
       IN IF ~(a > p + 1 /\ a <= Len(txt) /\ IsKw(txt[a], kTABLE)) THEN None
          ELSE LET c == SkipWs(txt, a + 1)
               IN IF ~(c > a + 1 /\ c <= Len(txt)) THEN None
                  ELSE IF /\ c + 4 <= Len(txt)
                          /\ txt[c] = at /\ IsKw(txt[c + 1], kDATA)
                          /\ txt[c + 2] = lpar /\ IsWord(txt[c + 3])
                          /\ txt[c + 4] = rpar
                       THEN txt[c + 3]
                       ELSE IF IsWord(txt[c]) THEN txt[c] ELSE None

\* m = INTO_TABLE_RE.search(stmt_text); target_table = m.group(1) or m.group(2)
IntoTableTarget(txt) ==
  LET P == {p \in 1..Len(txt) : IntoTableAt(txt, p) # None}
  IN IF P = {} THEN None ELSE IntoTableAt(txt, Min(P))

(******************************** Rule Evaluator ***************************)

\* stmt_text.replace("\n", " ")
ReplaceNewlines(txt) == [i \in DOMAIN txt |-> IF txt[i] = nl THEN sp ELSE txt[i]]

\* the search with word boundaries added: \bORDER\s+BY\b
OrderBySearch_WordBounded(txt) ==
  \E p \in 1..Len(txt) :
    /\ IsKw(txt[p], kORDER)
    /\ LET b == SkipWs(txt, p + 1)
       IN b > p + 1 /\ b <= Len(txt) /\ IsKw(txt[b], kBY)

\* ORDERBY_RE.search(txt): ORDER\s+BY with no word boundaries
OrderBySearch(txt) ==
  \E p \in 1..Len(txt) :
    /\ IsWord(txt[p]) /\ HasSuffix(Upper(txt[p]), kORDER)
    /\ LET b == SkipWs(txt, p + 1)
       IN b > p + 1 /\ b <= Len(txt) /\ IsWord(txt[b])
          /\ HasPrefix(Upper(txt[b]), kBY)

HasOrderBy(stmt_text) == OrderBySearch(ReplaceNewlines(stmt_text))

\* str.splitlines(): the lines without their line breaks
RECURSIVE SplitLines(_)
SplitLines(txt) ==
  IF txt = <<>> THEN <<>>
  ELSE LET N == {i \in 1..Len(txt) : txt[i] = nl}
       IN IF N = {} THEN <<txt>>
          ELSE <<SubSeq(txt, 1, Min(N) - 1)>>
               \o SplitLines(SubSeq(txt, Min(N) + 1, Len(txt)))

\* line.strip().startswith("*")
IsCommentLine(line) ==
  LET f == SkipWs(line, 1) IN f <= Len(line) /\ line[f] = star

\* "\n".join(lines)
RECURSIVE JoinLines(_)
JoinLines(lines) ==
  IF lines = <<>> THEN <<>>
  ELSE IF Len(lines) = 1 THEN lines[1]
  ELSE lines[1] \o <<nl>> \o JoinLines(Tail(lines))

\* the comment lines kept
StripCommentLines_Keep(after) == after

\* the cleaned_lines loop and the join
StripCommentLines(after) ==
  JoinLines(SelectSeq(SplitLines(after), LAMBDA l : ~IsCommentLine(l)))

\* make_sort_re(table_name).search(txt): \bSORT\s+<table>\b.*?\bBY\b
SortSearch(txt, table_name) ==
  \E p \in 1..Len(txt) :
    /\ IsKw(txt[p], kSORT)
    /\ LET a == SkipWs(txt, p + 1)
       IN /\ a > p + 1 /\ a <= Len(txt) /\ Upper(txt[a]) = Upper(table_name)
          /\ \E b \in (a + 1)..Len(txt) : IsKw(txt[b], kBY)

\* found_sort taken as True when there is no table to look for
FoundSort_Lenient(after, target_table) ==
  IF target_table # None
  THEN SortSearch(StripCommentLines(after), target_table)
  ELSE TRUE

\* found_sort
FoundSort(after, target_table) ==
  IF target_table # None
  THEN SortSearch(StripCommentLines(after), target_table)
  ELSE FALSE

TargetName(is_single, has_fae) ==
  IF is_single THEN "SELECT_SINGLE"
  ELSE IF has_fae THEN "FOR_ALL_ENTRIES" ELSE "NO_FOR_ALL_ENTRIES"

\* the suggestion without the SELECT SINGLE branch
Suggestion_NoSingle(is_single, has_fae, stmt_text, after, fields, target_table) ==
  IF ~has_fae
  THEN IF ~HasOrderBy(stmt_text)
       THEN IF fields # <<>> THEN <<"Add ORDER BY", fields>>
            ELSE <<"Add ORDER BY with all select fields">>
       ELSE None
  ELSE IF ~FoundSort(after, target_table)
       THEN IF fields # <<>> THEN <<"Add SORT by", fields, target_table>>
            ELSE <<"Add SORT by all select fields", target_table>>
       ELSE None

\* the suggestion of one statement: None, or its wording with what it interpolates
Suggestion(is_single, has_fae, stmt_text, after, fields, target_table) ==
  IF is_single THEN None
  ELSE IF ~has_fae
  THEN IF ~HasOrderBy(stmt_text)
       THEN IF fields # <<>> THEN <<"Add ORDER BY", fields>>
            ELSE <<"Add ORDER BY with all select fields">>
       ELSE None
  ELSE IF ~FoundSort(after, target_table)
       THEN IF fields # <<>> THEN <<"Add SORT by", fields, target_table>>
            ELSE <<"Add SORT by all select fields", target_table>>
       ELSE None

WildcardSuggestion == <<"Avoid SELECT *">>

(************************* scan_sql and assess ****************************)

NoStmt ==
  [valid |-> FALSE, first |-> 0, last |-> 0, span |-> <<0, 0>>,
   is_single |-> FALSE, has_fae |-> FALSE, select |-> <<>>, fields |-> <<>>,
   target_table |-> None]

\* the span without the terminating period
SpanOf_NoPeriod(txt, m) == <<CharOff(txt, m.first - 1), CharOff(txt, m.last - 1)>>

\* stmt.span(): character offsets, half-open, 0-indexed
SpanOf(txt, m) == <<CharOff(txt, m.first - 1), CharOff(txt, m.last)>>

\* one iteration of the loop over finditer: the locals and the finding, if any
ScanOne(txt, m) ==
  LET stmt_text == SubSeq(txt, m.first, m.last)
      span      == SpanOf(txt, m)
      is_single == m.single
      has_fae   == HasForAllEntries(stmt_text)
      clean     == CleanSelect(m.select, is_single)
      wildcard  == HasStar(clean)
      fields    == IF wildcard THEN <<star>> ELSE Fields(clean)
      target    == IF wildcard THEN None ELSE IntoTableTarget(stmt_text)
      after     == SubSeq(txt, m.last + 1, Len(txt))
      sugg      == IF wildcard THEN WildcardSuggestion
                   ELSE Suggestion(is_single, has_fae, stmt_text, after,
                                   fields, target)
  IN [locals |-> [valid |-> TRUE, first |-> m.first, last |-> m.last,
                  span |-> span, is_single |-> is_single, has_fae |-> has_fae,
                  select |-> clean, fields |-> fields, target_table |-> target],
      hits   |-> IF sugg # None
                 THEN << [target_type |-> "SQL_SELECT",
                          target_name |-> TargetName(is_single, has_fae),
                          span |-> span,
                          used_fields |-> fields,
                          suggested_statement |-> sugg] >>
                 ELSE <<>>]

\* the search resumed right after the last match's start (overlapping matches)
ResumeAt_Overlap(m) == m.first + 1

\* finditer resumes where the last match ended
ResumeAt(m) == m.last + 1

\* seen created once for the batch and kept from unit to unit
NewSeen_Kept(old) == old

\* seen = set() at the start of a unit
NewSeen(old) == {}

\* key = (hit["target_type"], hit["span"])
KeyOf(hit) == <<hit.target_type, hit.span>>

\* the record appended to findings
FindingOf(hit) ==
  [table |-> None,
   target_type |-> hit.target_type,
   target_name |-> hit.target_name,
   start_char_in_unit |-> hit.span[1],
   end_char_in_unit |-> hit.span[2],
   used_fields |-> hit.used_fields,
   ambiguous |-> FALSE,
   suggested_fields |-> None,
   suggested_statement |-> hit.suggested_statement]

\* the state at the start of a batch: the first unit's scan is about to begin
InitOn(batch) ==
  /\ units = batch
  /\ ui = 1
  /\ code = batch[1]
  /\ pc = "scan"
  /\ pos = 1
  /\ located = <<>>
  /\ cur = NoStmt
  /\ results = <<>>
  /\ hi = 1
  /\ seen = {}
  /\ findings = <<>>
  /\ out = <<>>

\* scan_sql: one statement located and evaluated
ScanStmt ==
  /\ pc = "scan"
  /\ LET m == NextMatch(code, pos)
         r == ScanOne(code, m)
     IN /\ m.found
        /\ located' = Append(located, [first |-> m.first, last |-> m.last,
                                        span |-> SpanOf(code, m)])
        /\ cur' = r.locals
        /\ results' = results \o r.hits
        /\ pos' = ResumeAt(m)
  /\ UNCHANGED <<units, ui, code, pc, hi, seen, findings, out>>

\* scan_sql: the iterator is exhausted, return results
ScanReturn ==
  /\ pc = "scan"
  /\ ~NextMatch(code, pos).found
  /\ pc' = "assess"
  /\ hi' = 1
  /\ UNCHANGED <<units, ui, code, pos, located, cur, results, seen, findings, out>>

\* assess: one hit of scan_sql(src)
AssessHit ==
  /\ pc = "assess"
  /\ hi <= Len(results)
  /\ LET hit == results[hi]
         key == KeyOf(hit)
     IN IF key \notin seen
        THEN /\ seen' = seen \cup {key}
             /\ findings' = Append(findings, FindingOf(hit))
        ELSE UNCHANGED <<seen, findings>>
  /\ hi' = hi + 1
  /\ UNCHANGED <<units, ui, code, pc, pos, located, cur, results, out>>

\* assess: obj["selects"] = findings; go on to the next unit, or return
AssessUnit ==
  /\ pc = "assess"
  /\ hi > Len(results)
  /\ out' = Append(out, findings)
  /\ IF ui < Len(units)
     THEN /\ ui' = ui + 1
          /\ code' = units[ui + 1]
          /\ pc' = "scan"
          /\ pos' = 1
          /\ located' = <<>>
          /\ cur' = NoStmt
          /\ results' = <<>>
          /\ hi' = 1
          /\ seen' = NewSeen(seen)
          /\ findings' = <<>>
     ELSE /\ pc' = "done"
          /\ UNCHANGED <<ui, code, pos, located, cur, results, hi, seen, findings>>
  /\ UNCHANGED units

Next == ScanStmt \/ ScanReturn \/ AssessHit \/ AssessUnit

(****************************** source texts *******************************)

\* string concatenation on token sequences: word characters that meet form one word
Cat(s, t) ==
  IF s # <<>> /\ t # <<>> /\ IsWord(s[Len(s)]) /\ IsWord(t[1])
  THEN SubSeq(s, 1, Len(s) - 1) \o <<s[Len(s)] \o t[1]>> \o Tail(t)
  ELSE s \o t

\* head followed by pieces[f[1]], ..., pieces[f[n]]
RECURSIVE CatPieces(_, _, _, _)
CatPieces(head, pieces, f, n) ==
  IF n = 0 THEN head
  ELSE Cat(CatPieces(head, pieces, f, n - 1), pieces[f[n]])

\* the source texts made of a head and at most max pieces
Texts(heads, pieces, max) ==
  {CatPieces(h, pieces, f, Len(f)) :
     h \in heads, f \in UNION {[1..n -> DOMAIN pieces] : n \in 0..max}}

fa  == <<"a">>
fA  == <<"A">>
fb  == <<"b">>
tt  == <<"t">>
wx  == <<"x">>
lt  == <<"l","t">>
uLT == <<"L","T">>
kIN == <<"I","N">>
lSELECT   == <<"s","e","l","e","c","t">>
lDISTINCT == <<"d","i","s","t","i","n","c","t">>
lBY       == <<"b","y">>
tilde == <<"~">>
comma == <<",">>

MaxPlainPieces == 4

\* "SELECT a FROM t "
PlainHeads == { <<kSELECT, sp, fa, sp, kFROM, sp, tt, sp>> }

\* "ORDER", " ", "\n", "by.", "x", "SELECT b FROM t "
PlainPieces ==
  << <<kORDER>>, <<sp>>, <<nl>>, <<lBY, dot>>, <<wx>>,
     <<kSELECT, sp, fb, sp, kFROM, sp, tt, sp>> >>

InitPlain == \E src \in Texts(PlainHeads, PlainPieces, MaxPlainPieces) : InitOn(<<src>>)

SpecPlain == InitPlain /\ [][Next]_vars

(********************************* claims **********************************)

\* the tokens of the statement last located, SELECT through the period
StmtText == SubSeq(code, cur.first, cur.last)

\* a finding was emitted for the statement last located
Emitted == \E i \in DOMAIN results : results[i].span = cur.span

\* the statement last located is of the plain variant
IsPlainStmt == cur.valid /\ ~cur.is_single /\ ~cur.has_fae /\ ~HasStar(cur.select)

\* the text holds the string "ORDER BY" (case-insensitive, anywhere), a line
\* break read as a blank: ORDER, one whitespace character, BY
ContainsOrderSpaceBy(txt) ==
  \E p \in 1..(Len(txt) - 2) :
    /\ IsWord(txt[p]) /\ HasSuffix(Upper(txt[p]), kORDER)
    /\ IsWs(txt[p + 1])
    /\ IsWord(txt[p + 2]) /\ HasPrefix(Upper(txt[p + 2]), kBY)

\* the text holds ORDER, one or more whitespace characters, BY
ContainsOrderWsBy(txt) ==
  \E p, q \in 1..Len(txt) :
    /\ p + 1 < q
    /\ IsWord(txt[p]) /\ HasSuffix(Upper(txt[p]), kORDER)
    /\ \A r \in (p + 1)..(q - 1) : IsWs(txt[r])
    /\ IsWord(txt[q]) /\ HasPrefix(Upper(txt[q]), kBY)

\* C1 as stated: a plain statement gets a finding iff its text does not contain
\* the string "ORDER BY" (case-insensitive)
C1_Original == IsPlainStmt => (Emitted <=> ~ContainsOrderSpaceBy(StmtText))

\* C1 amended: a plain statement gets a finding iff its text does not contain
\* ORDER followed by one or more whitespace characters followed by BY
C1_PlainCompleteness == IsPlainStmt => (Emitted <=> ~ContainsOrderWsBy(StmtText))

\* a plain statement with several whitespace characters between ORDER and BY:
\* no finding
C1_Witness ==
  /\ IsPlainStmt /\ ~Emitted
  /\ ContainsOrderWsBy(StmtText) /\ ~ContainsOrderSpaceBy(StmtText)


(***************************** bulk variant ********************************)

MaxBulkPieces == 4

\* "SELECT a FROM t FOR ALL ENTRIES IN x"
BulkHeads ==
  { <<kSELECT, sp, fa, sp, kFROM, sp, tt, sp, kFOR, sp, kALL, sp, kENTRIES,
      sp, kIN, sp, wx>> }

\* " INTO TABLE lt.", " INTO TABLE @DATA(lt).", "SORT LT", " BY", "\n", "* ", "x"
BulkPieces ==
  << <<sp, kINTO, sp, kTABLE, sp, lt, dot>>,
     <<sp, kINTO, sp, kTABLE, sp, at, kDATA, lpar, lt, rpar, dot>>,
     <<kSORT, sp, uLT>>, <<sp, kBY>>, <<nl>>, <<star, sp>>, <<wx>> >>

InitBulk == \E src \in Texts(BulkHeads, BulkPieces, MaxBulkPieces) : InitOn(<<src>>)

SpecBulk == InitBulk /\ [][Next]_vars

\* the source text after the statement last located
AfterText == SubSeq(code, cur.last + 1, Len(code))

\* token r of txt stands on a line whose trimmed content begins with '*'
OnCommentLine(txt, r) ==
  LET B == {i \in 1..(r - 1) : txt[i] = nl}
      start == IF B = {} THEN 1 ELSE (CHOOSE x \in B : \A y \in B : y <= x) + 1
      F == {i \in start..Len(txt) : txt[i] # sp}
  IN F # {} /\ txt[Min(F)] = star

\* with the comment lines removed, txt holds SORT, the name as a whole word
\* (whitespace between them), and later BY; names and keywords in any case
SortFollows(txt, name) ==
  \E p \in 1..Len(txt) :
    /\ IsKw(txt[p], kSORT) /\ ~OnCommentLine(txt, p)
    /\ \E a \in (p + 1)..Len(txt) :
         /\ Upper(txt[a]) = Upper(name) /\ ~OnCommentLine(txt, a)
         /\ \A r \in (p + 1)..(a - 1) : IsWs(txt[r]) \/ OnCommentLine(txt, r)
         /\ \E b \in (a + 1)..Len(txt) :
              IsKw(txt[b], kBY) /\ ~OnCommentLine(txt, b)

\* the statement last located is of the bulk variant
IsBulkStmt == cur.valid /\ cur.has_fae /\ ~cur.is_single /\ ~HasStar(cur.select)

\* C2: a bulk statement with an INTO TABLE target gets a finding iff the text
\* after its end, comment lines removed, holds no SORT <target> ... BY
C2_BulkCompleteness ==
  (IsBulkStmt /\ cur.target_table # None)
    => (Emitted <=> ~SortFollows(AfterText, cur.target_table))

\* a bulk statement followed by SORT <target> BY, the name in another case and
\* on a later line: no finding
C2_Witness ==
  /\ IsBulkStmt /\ cur.target_table = lt /\ ~Emitted
  /\ \E p \in 1..(Len(AfterText) - 3) :
       SubSeq(AfterText, p, p + 3) = <<nl, kSORT, sp, uLT>>

MaxNoTargetPieces == 4

\* " INTO TABLE @lt.", " INTO CORRESPONDING FIELDS OF TABLE lt.", ".",
\* "\nSORT lt", " BY a", "* "
NoTargetPieces ==
  << <<sp, kINTO, sp, kTABLE, sp, at, lt, dot>>,
     <<sp, kINTO, sp, <<"C","O","R","R","E","S","P","O","N","D","I","N","G">>,
       sp, <<"F","I","E","L","D","S">>, sp, <<"O","F">>, sp, kTABLE, sp, lt, dot>>,
     <<dot>>,
     <<nl, kSORT, sp, lt>>, <<sp, kBY, sp, fa>>, <<star, sp>> >>

InitNoTarget ==
  \E src \in Texts(BulkHeads, NoTargetPieces, MaxNoTargetPieces) : InitOn(<<src>>)

SpecNoTarget == InitNoTarget /\ [][Next]_vars

\* C7: a bulk statement with no INTO TABLE target always gets a finding, tagged
\* FOR_ALL_ENTRIES
C7_MissingTarget ==
  (IsBulkStmt /\ cur.target_table = None)
    => \E i \in DOMAIN results :
         /\ results[i].span = cur.span
         /\ results[i].target_name = "FOR_ALL_ENTRIES"

\* a bulk statement with no target, followed by SORT <name> BY, and its finding
C7_Witness ==
  /\ IsBulkStmt /\ cur.target_table = None /\ Emitted
  /\ \E name \in {lt, uLT} : SortFollows(AfterText, name)


(************************ wildcard and single-row **************************)

MaxVariantPieces == 4

lSINGLE == <<"s","i","n","g","l","e">>

\* "SELECT * FROM t", "SELECT SINGLE a, * FROM t", "select single a FROM t",
\* "SELECT a INTO * FROM t"
VariantHeads ==
  { <<kSELECT, sp, star, sp, kFROM, sp, tt>>,
    <<kSELECT, sp, kSINGLE, sp, fa, comma, sp, star, sp, kFROM, sp, tt>>,
    <<lSELECT, sp, lSINGLE, sp, fa, sp, kFROM, sp, tt>>,
    <<kSELECT, sp, fa, sp, kINTO, sp, star, sp, kFROM, sp, tt>> }

\* " ORDER BY a", " FOR ALL ENTRIES IN x INTO TABLE lt", ".", "\nSORT lt BY a",
\* "\nSELECT * FROM t"
VariantPieces ==
  << <<sp, kORDER, sp, kBY, sp, fa>>,
     <<sp, kFOR, sp, kALL, sp, kENTRIES, sp, kIN, sp, wx, sp, kINTO, sp, kTABLE, sp, lt>>,
     <<dot>>,
     <<nl, kSORT, sp, lt, sp, kBY, sp, fa>>,
     <<nl, kSELECT, sp, star, sp, kFROM, sp, tt>> >>

InitVariant ==
  \E src \in Texts(VariantHeads, VariantPieces, MaxVariantPieces) : InitOn(<<src>>)

SpecVariant == InitVariant /\ [][Next]_vars

\* the selection clause of the statement last located, read off the source: the
\* tokens after SELECT up to the first FROM or INTO
ClauseEnd ==
  Min({r \in (cur.first + 1)..cur.last :
         IsKw(code[r], kFROM) \/ IsKw(code[r], kINTO)})

Clause == SubSeq(code, cur.first + 1, ClauseEnd - 1)

ClauseHasStar == \E r \in DOMAIN Clause : Clause[r] = star

\* SELECT is followed by whitespace and SINGLE
StmtIsSingle ==
  \E j \in (cur.first + 2)..cur.last :
    /\ \A r \in (cur.first + 1)..(j - 1) : IsWs(code[r])
    /\ IsWord(code[j]) /\ HasPrefix(Upper(code[j]), kSINGLE)

\* the findings emitted for the statement last located
HitsOfCur == {i \in DOMAIN results : results[i].span = cur.span}

\* C3: a statement with '*' in its selection clause gets exactly one finding,
\* with used_fields = ["*"] and the wildcard suggestion, whatever its variant
C3_WildcardPrecedence ==
  (cur.valid /\ ClauseHasStar)
    => /\ Cardinality(HitsOfCur) = 1
       /\ \A i \in HitsOfCur :
            /\ results[i].used_fields = <<star>>
            /\ results[i].suggested_statement = WildcardSuggestion

\* SELECT SINGLE with '*', FOR ALL ENTRIES and ORDER BY: the wildcard finding
C3_Witness ==
  /\ cur.valid /\ ClauseHasStar /\ StmtIsSingle /\ cur.has_fae
  /\ ContainsOrderWsBy(StmtText)
  /\ Cardinality(HitsOfCur) = 1

\* C4: a SELECT SINGLE statement without '*' gets no finding
C4_SingleExemption ==
  (cur.valid /\ StmtIsSingle /\ ~ClauseHasStar) => ~Emitted

\* SELECT SINGLE with FOR ALL ENTRIES, no ORDER BY, no SORT after it: no finding
C4_Witness ==
  /\ cur.valid /\ StmtIsSingle /\ ~ClauseHasStar /\ cur.has_fae
  /\ ~ContainsOrderWsBy(StmtText) /\ cur.target_table = lt
  /\ ~SortFollows(AfterText, lt)
  /\ HitsOfCur = {}

(**************************** several statements ***************************)

MaxMultiPieces == 6

\* "SELECT a FROM t", "select b ", " FROM t", "."
MultiPieces ==
  << <<kSELECT, sp, fa, sp, kFROM, sp, tt>>,
     <<lSELECT, sp, fb, sp>>,
     <<sp, kFROM, sp, tt>>,
     <<dot>> >>

InitMulti == \E src \in Texts({<<>>}, MultiPieces, MaxMultiPieces) : InitOn(<<src>>)

SpecMulti == InitMulti /\ [][Next]_vars

\* the span lies in the text, begins with SELECT, ends with a period, and is the
\* span of a statement the locator yielded
SpanOk(span) ==
  LET chars == Flatten(code)
  IN /\ 0 <= span[1] /\ span[1] <= span[2] /\ span[2] <= Len(chars)
     /\ span[2] - span[1] >= Len(kSELECT) + 1
     /\ Upper(SubSeq(chars, span[1] + 1, span[1] + Len(kSELECT))) = kSELECT
     /\ chars[span[2]] = "."
     /\ \E k \in DOMAIN located : located[k].span = span

\* C5: every finding's span is valid and backed by a located statement
C5_SpanValidity ==
  /\ \A i \in DOMAIN results : SpanOk(results[i].span)
  /\ \A i \in DOMAIN findings :
       SpanOk(<<findings[i].start_char_in_unit, findings[i].end_char_in_unit>>)

\* two findings returned, the second not at the start of the text
C5_Witness ==
  /\ Len(findings) = 2
  /\ findings[2].start_char_in_unit > findings[1].end_char_in_unit

\* the SELECT keyword tokens after token i
LaterSelects(i) == {r \in (i + 1)..Len(code) : IsKw(code[r], kSELECT)}

\* C6 as stated: a match has its terminating period before the SELECT keyword
\* recurs (no match extends across a later SELECT keyword)
C6_Original ==
  \A k \in DOMAIN located :
    LET i == located[k].first
        stop == IF LaterSelects(i) = {} THEN Len(code) + 1 ELSE Min(LaterSelects(i))
    IN \E d \in (i + 1)..(stop - 1) : code[d] = dot

\* C6 amended: a match ends at the first period after its FROM <table>, so a
\* candidate with no period after it before the source ends is not matched
C6_Unterminated ==
  \A k \in DOMAIN located :
    /\ code[located[k].last] = dot
    /\ \E f \in (located[k].first + 1)..(located[k].last - 1) :
         /\ FromAt(code, f) # 0
         /\ \A d \in (FromAt(code, f) + 1)..(located[k].last - 1) : code[d] # dot

\* the scan is over, one match extends across a later SELECT keyword, and a
\* later SELECT ... FROM <table> with no period after it is not matched
C6_Witness ==
  /\ pc = "assess"
  /\ \E k \in DOMAIN located :
       \E r \in (located[k].first + 1)..located[k].last : IsKw(code[r], kSELECT)
  /\ \E i \in 1..Len(code) :
       /\ IsKw(code[i], kSELECT)
       /\ \A k \in DOMAIN located : located[k].last < i
       /\ \E f \in (i + 1)..Len(code) : FromAt(code, f) # 0

\* the findings are in source order, do not overlap, and are unique by
\* (target type, span)
InOrder(fs) ==
  /\ \A i, j \in DOMAIN fs :
       i < j => /\ fs[i].start_char_in_unit < fs[j].start_char_in_unit
                /\ fs[i].end_char_in_unit <= fs[j].start_char_in_unit
                /\ <<fs[i].target_type, fs[i].start_char_in_unit, fs[i].end_char_in_unit>>
                     # <<fs[j].target_type, fs[j].start_char_in_unit, fs[j].end_char_in_unit>>

\* C9: the findings of a unit are ordered, disjoint, unique, and at most one per
\* located statement
C9_OrderedUnique ==
  /\ InOrder(findings)
  /\ \A u \in DOMAIN out : InOrder(out[u])
  /\ \A k \in DOMAIN located :
       Cardinality({i \in DOMAIN findings :
                      /\ findings[i].start_char_in_unit = located[k].span[1]
                      /\ findings[i].end_char_in_unit = located[k].span[2]}) <= 1
  /\ \A k \in DOMAIN located :
       Cardinality({i \in DOMAIN results : results[i].span = located[k].span}) <= 1

\* three findings returned for one unit
C9_Witness == pc = "done" /\ Len(out) = 1 /\ Len(out[1]) = 3


(******************************** field list *******************************)

MaxFieldPieces == 4

\* "SELECT "
FieldHeads == { <<kSELECT, sp>> }

\* "a ", "A ", "distinct ", "INTO ", "t~b, ", "FROM t."
FieldPieces ==
  << <<fa, sp>>, <<fA, sp>>, <<lDISTINCT, sp>>, <<kINTO, sp>>,
     <<tt, tilde, fb, comma, sp>>, <<kFROM, sp, tt, dot>> >>

InitFields ==
  \E src \in Texts(FieldHeads, FieldPieces, MaxFieldPieces) : InitOn(<<src>>)

SpecFields == InitFields /\ [][Next]_vars

\* the identifier tokens of the selection clause other than DISTINCT, by position
ClauseNames == {r \in DOMAIN Clause : IsWord(Clause[r]) /\ ~IsKw(Clause[r], kDISTINCT)}

\* where a name first occurs in the selection clause
FirstAt(name) == Min({r \in ClauseNames : Upper(Clause[r]) = name})

\* C10: the used_fields of a finding without '*' are the identifier tokens of the
\* selection clause, uppercased, without DISTINCT, each once, in order of first
\* occurrence
C10_FieldList ==
  (cur.valid /\ ~ClauseHasStar)
    => \A i \in HitsOfCur :
         LET u == results[i].used_fields
         IN /\ Range(u) = {Upper(Clause[r]) : r \in ClauseNames}
            /\ \A a, b \in DOMAIN u : a < b => FirstAt(u[a]) < FirstAt(u[b])
            /\ \A a, b \in DOMAIN u : a # b => u[a] # u[b]
            /\ \A a \in DOMAIN u :
                 /\ u[a] # kDISTINCT
                 /\ \A c \in DOMAIN u[a] : u[a][c] \notin Range(LowerAlpha)

\* a finding for "SELECT distinct ... a ... A ... FROM t.": used_fields is ["A"]
C10_Witness ==
  /\ cur.valid /\ HitsOfCur # {} /\ cur.fields = <<fA>>
  /\ \E p, q, r \in DOMAIN Clause :
       Clause[p] = lDISTINCT /\ Clause[q] = fa /\ Clause[r] = fA /\ q < r

(********************************** batches ********************************)

MaxUnits == 3

\* the source texts of the units of a batch
BatchTexts ==
  { <<>>,
    <<kSELECT, sp, fa, sp, kFROM, sp, tt, dot>>,
    <<kSELECT, sp, star, sp, kFROM, sp, tt, dot, kSELECT, sp, fa, sp, kFROM, sp, tt, dot>>,
    <<lSELECT, sp, lSINGLE, sp, fa, sp, kFROM, sp, tt, dot>>,
    <<kSELECT, sp, fa, sp, kFROM, sp, tt, sp, kFOR, sp, kALL, sp, kENTRIES,
      sp, kIN, sp, wx, sp, kINTO, sp, kTABLE, sp, lt, dot>>,
    <<kSELECT, sp, fa, sp, kFROM, sp, tt, sp, kFOR, sp, kALL, sp, kENTRIES,
      sp, kIN, sp, wx, sp, kINTO, sp, kTABLE, sp, lt, dot,
      nl, kSORT, sp, lt, sp, kBY, sp, fa, dot>> }

InitBatch ==
  \E n \in 1..MaxUnits : \E batch \in [1..n -> BatchTexts] : InitOn(batch)

SpecBatch == InitBatch /\ [][Next]_vars

\* scan_sql on one text, on its own
RECURSIVE ScanAlone(_, _)
ScanAlone(txt, p) ==
  LET m == NextMatch(txt, p)
  IN IF ~m.found THEN <<>>
     ELSE ScanOne(txt, m).hits \o ScanAlone(txt, m.last + 1)

\* the findings of one text scanned on its own
RECURSIVE FirstByKey(_)
FirstByKey(hits) ==
  IF hits = <<>> THEN <<>>
  ELSE LET r == FirstByKey(SubSeq(hits, 1, Len(hits) - 1))
           h == hits[Len(hits)]
       IN IF \E i \in DOMAIN r : <<r[i].target_type, r[i].start_char_in_unit,
                                   r[i].end_char_in_unit>> = <<h.target_type, h.span[1], h.span[2]>>
          THEN r ELSE Append(r, FindingOf(h))

FindingsAlone(txt) == FirstByKey(ScanAlone(txt, 1))

\* C8: equal source texts get equal finding lists wherever they stand in a batch,
\* and each unit's findings are those of its text scanned on its own
C8_Idempotent ==
  /\ \A i, j \in DOMAIN out : units[i] = units[j] => out[i] = out[j]
  /\ \A i \in DOMAIN out : out[i] = FindingsAlone(units[i])

\* a batch is done in which one text with a finding was scanned twice
C8_Witness ==
  /\ pc = "done"
  /\ \E i, j \in DOMAIN out : i < j /\ units[i] = units[j] /\ out[j] # <<>>

====
